---- MODULE Spec2Model ----
(***************************************************************************)
(* Lead ingestion pipeline of the marketing backend: spreadsheet upload,   *)
(* field extraction, duplicate detection, cross-store phone matching and   *)
(* the upload-history audit record (routes/instantLeadRoutes.js, with the  *)
(* Mongoose schemas of InstantFormLead and ExcelUploadHistory).            *)
(*                                                                         *)
(* Text is a TLA+ string; a missing value (undefined, null) of a text      *)
(* field is the empty string, which JavaScript treats as falsy like them.  *)
(***************************************************************************)
EXTENDS Integers, Sequences, FiniteSets, TLC

(***************************************************************************)
(* Bounds of the model.                                                    *)
(***************************************************************************)
MaxUploads == 2   \* upload requests
MaxWork == 5      \* requests served + spreadsheet rows read + store calls that threw
MaxReports == 2   \* report requests in progress together

(***************************************************************************)
(* Character-level helpers standing for the JavaScript string methods.     *)
(***************************************************************************)
Ch(s, i) == SubSeq(s, i, i)

DigitChars == {"0", "1", "2", "3", "4", "5", "6", "7", "8", "9"}

UpperChars == "ABCDEFGHIJKLMNOPQRSTUVWXYZ"
LowerChars == "abcdefghijklmnopqrstuvwxyz"

RECURSIVE MapChars(_, _, _)
MapChars(s, from, to) ==
    IF s = "" THEN ""
    ELSE LET c == Ch(s, 1)
             hit == {i \in 1..Len(from) : Ch(from, i) = c}
         IN (IF hit = {} THEN c ELSE Ch(to, CHOOSE i \in hit : TRUE))
            \o MapChars(SubSeq(s, 2, Len(s)), from, to)

\* String.prototype.toLowerCase / toUpperCase
toLowerCase(s) == MapChars(s, UpperChars, LowerChars)
toUpperCase(s) == MapChars(s, LowerChars, UpperChars)

\* value.replace(/\D/g, '')
RECURSIVE StripNonDigits(_)
StripNonDigits(s) ==
    IF s = "" THEN ""
    ELSE (IF Ch(s, 1) \in DigitChars THEN Ch(s, 1) ELSE "")
         \o StripNonDigits(SubSeq(s, 2, Len(s)))

\* normalized.replace(/^0+/, '')
RECURSIVE StripLeadingZeros(_)
StripLeadingZeros(s) ==
    IF s # "" /\ Ch(s, 1) = "0" THEN StripLeadingZeros(SubSeq(s, 2, Len(s))) ELSE s

\* String.prototype.trim (the only white space of the model is the blank)
RECURSIVE trim(_)
trim(s) ==
    IF s # "" /\ Ch(s, 1) = " " THEN trim(SubSeq(s, 2, Len(s)))
    ELSE IF s # "" /\ Ch(s, Len(s)) = " " THEN trim(SubSeq(s, 1, Len(s) - 1))
    ELSE s

(***************************************************************************)
(* normalizePhoneNumber: the canonical 10-digit form, or "" for null.      *)
(***************************************************************************)
\* the normalisation removing the leading zeros before the country code
normalizePhoneNumberZerosFirst(phone) ==
    IF phone = "" THEN ""
    ELSE LET digits == StripNonDigits(phone)
             noZero == StripLeadingZeros(digits)
             noCc   == IF Len(noZero) = 12 /\ SubSeq(noZero, 1, 2) = "91"
                       THEN SubSeq(noZero, 3, Len(noZero))
                       ELSE noZero
         IN IF Len(noCc) # 10 THEN "" ELSE noCc

normalizePhoneNumber(phone) ==
    IF phone = "" THEN ""
    ELSE LET digits == StripNonDigits(phone)
             noCc   == IF Len(digits) = 12 /\ SubSeq(digits, 1, 2) = "91"
                       THEN SubSeq(digits, 3, Len(digits))
                       ELSE digits
             noZero == StripLeadingZeros(noCc)
         IN IF Len(noZero) # 10 THEN "" ELSE noZero

(***************************************************************************)
(* extractAllFields.  A row is the sequence of its populated columns in    *)
(* sheet order (Object.keys order); a cell is a number or a text, as       *)
(* sheet_to_json delivers it.  leadData is a function of the attribute     *)
(* names assigned so far.                                                  *)
(***************************************************************************)
fieldMappings ==
    << [field |-> "created_time",
        aliases |-> <<"created_time", "created time", "date", "created_date">>],
       [field |-> "ad_id",
        aliases |-> <<"ad_id", "ad id", "adid", "campaign_id">>],
       [field |-> "platform",
        aliases |-> <<"platform", "source", "channel">>],
       [field |-> "what_is_your_monthly_salary",
        aliases |-> <<"what_is_your_monthly_salary?", "what_is_your_monthly_salary", "salary", "monthly_salary", "income">>],
       [field |-> "phone_number",
        aliases |-> <<"phone_number", "phone number", "phone", "mobile", "contact_number">>],
       [field |-> "pan_number",
        aliases |-> <<"pan_number", "pan number", "pan_no", "pan", "pancard">>],
       [field |-> "email",
        aliases |-> <<"email", "email_id", "email address">>],
       [field |-> "full_name",
        aliases |-> <<"full_name", "full name", "name", "customer_name">>],
       [field |-> "first_name",
        aliases |-> <<"first_name", "first name", "fname">>],
       [field |-> "last_name",
        aliases |-> <<"last_name", "last name", "lname">>],
       [field |-> "age",
        aliases |-> <<"age", "customer_age">>],
       [field |-> "gender",
        aliases |-> <<"gender", "sex">>],
       [field |-> "city",
        aliases |-> <<"city", "location", "customer_city">>],
       [field |-> "state",
        aliases |-> <<"state", "customer_state">>],
       [field |-> "pincode",
        aliases |-> <<"pincode", "pin code", "zipcode", "postal_code">>],
       [field |-> "occupation",
        aliases |-> <<"occupation", "job", "profession", "work">>],
       [field |-> "company_name",
        aliases |-> <<"company_name", "company", "employer">>],
       [field |-> "loan_amount",
        aliases |-> <<"loan_amount", "loan amount", "amount_needed">>],
       [field |-> "loan_purpose",
        aliases |-> <<"loan_purpose", "loan purpose", "purpose">>],
       [field |-> "existing_loans",
        aliases |-> <<"existing_loans", "existing loans", "current_loans">>],
       [field |-> "credit_score",
        aliases |-> <<"credit_score", "credit score", "cibil_score">>] >>

\* String(row[excelHeader] || '').trim(): a zero and an empty text are falsy
CellValue(cell) ==
    IF cell.text = "" \/ (cell.num /\ StripLeadingZeros(cell.text) = "")
    THEN ""
    ELSE trim(cell.text)

\* fieldMappings[modelField].some(alias => alias.toLowerCase() === excelHeader.toLowerCase())
AliasMatches(m, excelHeader) ==
    \E a \in 1..Len(fieldMappings[m].aliases) :
        toLowerCase(fieldMappings[m].aliases[a]) = toLowerCase(excelHeader)

\* the special processing storing a phone in its canonical form
MappedValueCanonicalPhone(modelField, value) ==
    IF modelField = "phone_number" THEN normalizePhoneNumber(value)
    ELSE IF modelField = "pan_number" THEN toUpperCase(value)
    ELSE value

\* the special processing of the mapped attributes
MappedValue(modelField, value) ==
    IF modelField = "phone_number" THEN StripNonDigits(value)
    ELSE IF modelField = "pan_number" THEN toUpperCase(value)
    ELSE value

\* Object.keys(fieldMappings).forEach: every attribute with a matching alias is assigned
ApplyMappings(leadData, excelHeader, value) ==
    LET hit == {fieldMappings[m].field : m \in {k \in 1..Len(fieldMappings) : AliasMatches(k, excelHeader)}}
    IN [f \in DOMAIN leadData \cup hit |->
            IF f \in hit THEN MappedValue(f, value) ELSE leadData[f]]

fieldAssigned(excelHeader) ==
    \E m \in 1..Len(fieldMappings) : AliasMatches(m, excelHeader)

ProcessColumn(leadData, col) ==
    LET value == CellValue(col.cell)
    IN IF value = "" THEN leadData
       ELSE IF fieldAssigned(col.header)
            THEN ApplyMappings(leadData, col.header, value)
            ELSE ("additional_data" :> ((col.header :> value) @@ leadData.additional_data))
                 @@ leadData

RECURSIVE ProcessColumns(_, _, _)
ProcessColumns(leadData, row, k) ==
    IF k > Len(row) THEN leadData
    ELSE ProcessColumns(ProcessColumn(leadData, row[k]), row, k + 1)

extractAllFields(row, rowNumber) ==
    ProcessColumns([uploaded_by |-> "unknown",
                    excel_file_name |-> "unknown",
                    excel_row_number |-> rowNumber,
                    additional_data |-> <<>>],
                   row, 1)

\* leadData.f of a JavaScript object: undefined (here "") when never assigned
Field(leadData, f) == IF f \in DOMAIN leadData THEN leadData[f] ELSE ""
(***************************************************************************)
(* checkPhoneNumbersInCustomerProfile: phoneNumbers is the list of raw     *)
(* phones, customerProfile the cp_mobile column of the external table,     *)
(* queryOk whether executeQuery returns (FALSE: it throws).  The result is *)
(* the Set matchedPhones.                                                  *)
(***************************************************************************)
\* normalizedPhonesMap: canonical form -> the first input phone that has it
normalizedPhonesMap(phoneNumbers) ==
    LET keys == {normalizePhoneNumber(phoneNumbers[k]) : k \in 1..Len(phoneNumbers)} \ {""}
        first(n) == CHOOSE k \in 1..Len(phoneNumbers) :
                        /\ normalizePhoneNumber(phoneNumbers[k]) = n
                        /\ \A j \in 1..(k - 1) : normalizePhoneNumber(phoneNumbers[j]) # n
    IN [n \in keys |-> phoneNumbers[first(n)]]

\* SELECT DISTINCT cp_mobile ... WHERE cp_mobile IS NOT NULL AND cp_mobile != '' AND LENGTH(cp_mobile) >= 10
allCustomerPhones(customerProfile) ==
    {m \in customerProfile : m # "" /\ Len(m) >= 10}

normalizedDbPhones(customerProfile) ==
    {normalizePhoneNumber(m) : m \in allCustomerPhones(customerProfile)} \ {""}

\* the matcher answering with the canonical forms that matched
checkPhoneNumbersReturningCanonical(phoneNumbers, customerProfile, queryOk) ==
    IF Len(phoneNumbers) = 0 \/ ~queryOk THEN {}
    ELSE {n \in DOMAIN normalizedPhonesMap(phoneNumbers) :
             n \in normalizedDbPhones(customerProfile)}

checkPhoneNumbersInCustomerProfile(phoneNumbers, customerProfile, queryOk) ==
    IF Len(phoneNumbers) = 0 THEN {}
    ELSE LET map == normalizedPhonesMap(phoneNumbers)
         IN IF DOMAIN map = {} THEN {}
            ELSE IF ~queryOk THEN {}
            ELSE {map[n] : n \in {k \in DOMAIN map : k \in normalizedDbPhones(customerProfile)}}

(***************************************************************************)
(* checkForDuplicates: the results the detector can return for leadData    *)
(* against the stored leads.  failAt is the lookup that throws (1 phone,   *)
(* 2 PAN, 3 email; 0 none); findOne returns any one of the matching leads. *)
(***************************************************************************)
NotDuplicate == [isDuplicate |-> FALSE, reason |-> "", originalLeadId |-> 0]

IsDuplicateOf(reason, hits) ==
    {[isDuplicate |-> TRUE, reason |-> reason, originalLeadId |-> l._id] : l \in hits}

\* whether the detector gets as far as lookup failAt (1 phone, 2 PAN, 3 email)
LookupRuns(leadData, stored, failAt) ==
    LET phoneDuplicate == {l \in stored : l.phone_number = Field(leadData, "phone_number")}
        panDuplicate   == {l \in stored : l.pan_number = Field(leadData, "pan_number")}
    IN CASE failAt = 1 -> TRUE
         [] failAt = 2 -> phoneDuplicate = {} /\ Field(leadData, "pan_number") # ""
         [] failAt = 3 -> /\ phoneDuplicate = {}
                          /\ (Field(leadData, "pan_number") = "" \/ panDuplicate = {})
                          /\ Field(leadData, "email") # ""
         [] OTHER -> FALSE

\* the detector looking at the PAN before the phone
checkForDuplicatesPanFirst(leadData, stored, failAt) ==
    LET phoneDuplicate == {l \in stored : l.phone_number = Field(leadData, "phone_number")}
        panDuplicate   == {l \in stored : l.pan_number = Field(leadData, "pan_number")}
        emailDuplicate == {l \in stored : l.email = Field(leadData, "email")}
    IN IF failAt # 0 THEN {NotDuplicate}
       ELSE IF Field(leadData, "pan_number") # "" /\ panDuplicate # {}
            THEN IsDuplicateOf("PAN number already exists", panDuplicate)
       ELSE IF phoneDuplicate # {} THEN IsDuplicateOf("Phone number already exists", phoneDuplicate)
       ELSE IF Field(leadData, "email") # "" /\ emailDuplicate # {}
            THEN IsDuplicateOf("Email already exists", emailDuplicate)
       ELSE {NotDuplicate}

\* the detector whose catch reports the row as a duplicate
checkForDuplicatesFailingAsDuplicate(leadData, stored, failAt) ==
    LET phoneDuplicate == {l \in stored : l.phone_number = Field(leadData, "phone_number")}
        panDuplicate   == {l \in stored : l.pan_number = Field(leadData, "pan_number")}
        emailDuplicate == {l \in stored : l.email = Field(leadData, "email")}
    IN IF failAt # 0
       THEN {[isDuplicate |-> TRUE, reason |-> "Duplicate check error", originalLeadId |-> 0]}
       ELSE IF phoneDuplicate # {} THEN IsDuplicateOf("Phone number already exists", phoneDuplicate)
       ELSE IF Field(leadData, "pan_number") # "" /\ panDuplicate # {}
            THEN IsDuplicateOf("PAN number already exists", panDuplicate)
       ELSE IF Field(leadData, "email") # "" /\ emailDuplicate # {}
            THEN IsDuplicateOf("Email already exists", emailDuplicate)
       ELSE {NotDuplicate}

checkForDuplicates(leadData, stored, failAt) ==
    LET phoneDuplicate == {l \in stored : l.phone_number = Field(leadData, "phone_number")}
        panDuplicate   == {l \in stored : l.pan_number = Field(leadData, "pan_number")}
        emailDuplicate == {l \in stored : l.email = Field(leadData, "email")}
    IN IF failAt = 1 THEN {NotDuplicate}
       ELSE IF phoneDuplicate # {} THEN IsDuplicateOf("Phone number already exists", phoneDuplicate)
       ELSE IF Field(leadData, "pan_number") # "" /\ failAt = 2 THEN {NotDuplicate}
       ELSE IF Field(leadData, "pan_number") # "" /\ panDuplicate # {}
            THEN IsDuplicateOf("PAN number already exists", panDuplicate)
       ELSE IF Field(leadData, "email") # "" /\ failAt = 3 THEN {NotDuplicate}
       ELSE IF Field(leadData, "email") # "" /\ emailDuplicate # {}
            THEN IsDuplicateOf("Email already exists", emailDuplicate)
       ELSE {NotDuplicate}

(***************************************************************************)
(* The Mongoose schemas.  A document holds the paths its schema declares   *)
(* (strict mode drops every other key of the object given to create or to  *)
(* an update); the timestamps are not modelled.                            *)
(***************************************************************************)
LeadRequiredPaths ==
    {"created_time", "ad_id", "platform", "what_is_your_monthly_salary", "phone_number"}

LeadTextPaths ==
    LeadRequiredPaths \cup
    {"pan_number", "email", "full_name", "first_name", "last_name", "age", "gender",
     "city", "state", "pincode", "occupation", "company_name", "loan_amount",
     "loan_purpose", "existing_loans", "credit_score", "uploaded_by", "excel_file_name",
     "duplicate_reason"}

instantFormLeadSchema ==
    LeadTextPaths \cup
    {"additional_data", "uploaded_at", "excel_row_number", "is_duplicate",
     "original_lead_id", "quality_lead", "salary_numeric_value"}

LeadPathDefault(path) ==
    IF path = "uploaded_by" THEN "unknown"
    ELSE IF path \in LeadTextPaths THEN ""
    ELSE IF path = "additional_data" THEN <<>>
    ELSE IF path \in {"is_duplicate", "quality_lead"} THEN FALSE
    ELSE 0

\* pre('save'): salaryMapping[this.what_is_your_monthly_salary] || 0
salary_numeric_value(salary) ==
    IF salary = "below 35K" THEN 30000
    ELSE IF salary = "₹35,000_to_₹50,000" THEN 42500
    ELSE IF salary = "₹50,000_to_₹70,000" THEN 60000
    ELSE IF salary = "₹70,000_to_₹1,00,000" THEN 85000
    ELSE IF salary = "above 1 Lakh" THEN 120000
    ELSE 0

\* the required validators of the schema
LeadValid(leadData) ==
    \A path \in LeadRequiredPaths : Field(leadData, path) # ""

\* the document InstantFormLead.create(leadData) saves under the new id on day now
\* (uploaded_at defaults to Date.now)
LeadDocument(leadData, id, now) ==
    [path \in instantFormLeadSchema \cup {"_id"} |->
        IF path = "_id" THEN id
        ELSE IF path = "uploaded_at" /\ path \notin DOMAIN leadData THEN now
        ELSE IF path = "salary_numeric_value"
             THEN salary_numeric_value(Field(leadData, "what_is_your_monthly_salary"))
        ELSE IF path \in DOMAIN leadData THEN leadData[path]
        ELSE LeadPathDefault(path)]

excelUploadHistorySchema ==
    {"fileName", "budget", "uploadedBy", "totalRows", "processedLeads", "duplicates", "errors"}

\* the document ExcelUploadHistory.create(fields) saves under the new id
HistoryDocument(fields, id) ==
    [path \in excelUploadHistorySchema \cup {"_id"} |->
        IF path = "_id" THEN id
        ELSE IF path \in DOMAIN fields THEN fields[path]
        ELSE IF path = "uploadedBy" THEN "unknown"
        ELSE 0]

\* findByIdAndUpdate(id, update): the declared paths of update overwrite the document
HistoryUpdated(doc, update) ==
    [path \in DOMAIN doc |->
        IF path \in DOMAIN update /\ path \in excelUploadHistorySchema
        THEN update[path] ELSE doc[path]]
(***************************************************************************)
(* Inputs of the model: the rows a spreadsheet can hold, the request       *)
(* bodies and the contents of the external customer table.                 *)
(***************************************************************************)
Text(s) == [num |-> FALSE, text |-> s]
Number(s) == [num |-> TRUE, text |-> s]
Col(header, cell) == [header |-> header, cell |-> cell]

RequiredCols ==
    << Col("created_time", Text("10/25/25")), Col("ad_id", Number("120231853365020170")),
       Col("platform", Text("fb")), Col("what_is_your_monthly_salary?", Text("below 35K")) >>

RowPool ==
    { \* a complete row: phone with country code, PAN in lower case, an email
      RequiredCols \o << Col("phone_number", Number("919034955557")),
                         Col("pan_number", Text("abcde1234f")),
                         Col("email", Text("a@x.in")) >>,
      \* another spelling of the same canonical phone, the same email, an unknown column
      RequiredCols \o << Col("Phone", Text(" 90349 55557 ")),
                         Col("Email", Text("a@x.in")),
                         Col("referrer_url", Text(" http://ad ")) >>,
      \* a phone of 8 digits
      RequiredCols \o << Col("phone_number", Number("12345678")) >>,
      \* a phone of 12 digits without canonical form, the PAN and the email of the first row
      RequiredCols \o << Col("mobile", Number("123456789012")),
                         Col("PAN", Text("ABCDE1234F")),
                         Col("email", Text("a@x.in")) >>,
      \* a row without platform, which the schema requires; a third spelling of the phone
      \* and the email of the first row
      << Col("created_time", Text("10/25/25")), Col("ad_id", Number("120231853365020170")),
         Col("what_is_your_monthly_salary?", Text("below 35K")),
         Col("phone_number", Text("09034955557")),
         Col("email", Text("a@x.in")) >> }

RECURSIVE SeqsUpTo(_, _)
SeqsUpTo(S, n) ==
    IF n = 0 THEN {<<>>}
    ELSE LET shorter == SeqsUpTo(S, n - 1)
         IN shorter \cup {Append(q, x) : q \in {t \in shorter : Len(t) = n - 1}, x \in S}

\* the sheets sheet_to_json can deliver
Sheets == SeqsUpTo(RowPool, MaxWork - 1)

\* limits.files of the multer instance
MaxFiles == 5

\* req.files after multer (every stored file passed the fileFilter: none, one, or as many as
\* the limit allows) and the workbook of the first file; the requests with several files
\* carry a sheet of one row; the request with more files than the limit is the one multer
\* refuses (LIMIT_FILE_COUNT, or a file the fileFilter turns down)
Requests ==
    {[nFiles |-> 0, readable |-> FALSE, jsonData |-> <<>>],
     [nFiles |-> 1, readable |-> FALSE, jsonData |-> <<>>]}
    \cup {[nFiles |-> 1, readable |-> TRUE, jsonData |-> sh] : sh \in Sheets}
    \cup {[nFiles |-> MaxFiles, readable |-> TRUE, jsonData |-> sh] : sh \in {t \in Sheets : Len(t) = 1}}
    \cup {[nFiles |-> MaxFiles + 1, readable |-> FALSE, jsonData |-> <<>>]}

\* the requests whose sheet has at most n rows
RequestsUpTo == [n \in 0..MaxWork |-> {r \in Requests : Len(r.jsonData) <= n}]

\* the cp_mobile values of the external table
CustomerTable == {"+91-9034955557", "9034955557", "12345"}

Uploads == 1..MaxUploads

\* extractAllFields over the rows of the model, evaluated once (the row number is set per call)
extractedRows == [row \in RowPool |-> extractAllFields(row, 0)]

extractRow(row, rowNumber) == [extractedRows[row] EXCEPT !.excel_row_number = rowNumber]

(***************************************************************************)
(* State.                                                                  *)
(***************************************************************************)
VARIABLES
    leads,             \* the InstantFormLead collection
    histories,         \* the ExcelUploadHistory collection
    customer_profile,  \* the cp_mobile column of the external MySQL table
    disk,              \* the files under uploads/: <<request, index>>
    nextId,            \* the next ObjectId
    faults,            \* store calls that have thrown so far
    upload,            \* per upload request: its position and locals
    call,              \* the request other than an upload (or the direct call of a helper
                       \* function) made by the last step, with its response
    served,            \* the requests other than uploads served so far
    report             \* per report request served in steps: its position and locals

vars == <<leads, histories, customer_profile, disk, nextId, faults, upload, call, served, report>>

\* the report requests that can be in progress together
Reports == 1..MaxReports

NoReport ==
    [pc |-> "idle", startDate |-> 0, endDate |-> 0, strictQuery |-> FALSE,
     phoneNumbers |-> {}, newlyMatchedPhones |-> {}, modified |-> {},
     res |-> [status |-> 0]]

Idle ==
    [pc |-> "idle", nFiles |-> 0, readable |-> FALSE, jsonData |-> <<>>,
     uploadHistory |-> 0, i |-> 0, leadDataArray |-> <<>>, errors |-> <<>>,
     duplicates |-> <<>>, processedLeads |-> <<>>, matchedPhones |-> {},
     lookupFailed |-> {}, matcherFailed |-> FALSE, next |-> 1, matchedCount |-> 0,
     res |-> [status |-> 0]]

Init ==
    /\ leads = {}
    /\ histories = {}
    /\ customer_profile = CustomerTable
    /\ disk = {}
    /\ nextId = 1
    /\ faults = 0
    /\ upload = [u \in Uploads |-> Idle]
    /\ call = [fn |-> "none"]
    /\ served = 0
    /\ report = [r \in Reports |-> NoReport]

\* the rows of the requests received so far
RowsSoFar ==
    LET RECURSIVE Sum(_)
        Sum(U) == IF U = {} THEN 0
                  ELSE LET v == CHOOSE v \in U : TRUE
                       IN Len(upload[v].jsonData) + Sum(U \ {v})
    IN Sum(Uploads)

Work == Cardinality({u \in Uploads : upload[u].pc # "idle"}) + RowsSoFar + faults + served

\* the requests the run has work left for
Affordable == IF Work < MaxWork THEN RequestsUpTo[MaxWork - Work - 1] ELSE {}

\* a store call may throw while the run has work left
Outcomes == IF Work < MaxWork THEN {TRUE, FALSE} ELSE {TRUE}

Faulted(ok) == IF ok THEN faults ELSE faults + 1

Set(u, fields) == [upload EXCEPT ![u] = fields @@ upload[u]]

\* the day request u arrives: one upload request a day
Today(u) == u

\* upload requests are served one at a time, in order
Sequential(u) ==
    /\ \A v \in Uploads \ {u} : upload[v].pc \in {"idle", "done"}
    /\ \A v \in Uploads : v < u => upload[v].pc = "done"
(***************************************************************************)
(* POST /upload.                                                           *)
(***************************************************************************)
\* Receive with the upload history record created before the sheet is looked at
ReceiveCreatingHistoryFirst(u, r) ==
    /\ upload[u].pc = "idle"
    /\ Work + 1 + Len(r.jsonData) <= MaxWork
    /\ disk' = IF r.nFiles > MaxFiles THEN disk ELSE disk \cup {<<u, k>> : k \in 1..r.nFiles}
    /\ histories' = IF r.nFiles > 0 /\ r.readable /\ Len(r.jsonData) = 0
                    THEN histories \cup {HistoryDocument([fileName |-> "leads.xlsx"], nextId)}
                    ELSE histories
    /\ upload' =
         Set(u, [nFiles |-> r.nFiles, readable |-> r.readable, jsonData |-> r.jsonData]
                @@ (IF r.nFiles > MaxFiles \/ r.nFiles = 0 \/ ~r.readable \/ Len(r.jsonData) = 0
                    THEN [pc |-> "done", res |-> [status |-> 400, message |-> "rejected"]]
                    ELSE [pc |-> "parsed", res |-> [status |-> 0]]))
    /\ UNCHANGED <<leads, customer_profile, nextId, faults>>

\* uploadMiddleware.any() stores the attached files under uploads/ and calls the handler,
\* which runs its file-level checks and, when they pass, asks for the upload history record
Receive(u, r) ==
    /\ upload[u].pc = "idle"
    /\ Work + 1 + Len(r.jsonData) <= MaxWork
    /\ disk' = IF r.nFiles > MaxFiles THEN disk ELSE disk \cup {<<u, k>> : k \in 1..r.nFiles}
    /\ upload' =
         Set(u, [nFiles |-> r.nFiles, readable |-> r.readable, jsonData |-> r.jsonData]
                @@ (IF r.nFiles > MaxFiles
                    THEN [pc |-> "done",
                          res |-> [status |-> 400, message |-> "File upload error"]]
                    ELSE IF r.nFiles = 0
                    THEN [pc |-> "done",
                          res |-> [status |-> 400, message |-> "No Excel file uploaded"]]
                    ELSE IF ~r.readable
                    THEN [pc |-> "done",
                          res |-> [status |-> 400, message |-> "Error reading Excel file"]]
                    ELSE IF Len(r.jsonData) = 0
                    THEN [pc |-> "done",
                          res |-> [status |-> 400, message |-> "Excel file is empty"]]
                    ELSE [pc |-> "parsed", res |-> [status |-> 0]]))
    /\ UNCHANGED <<leads, histories, customer_profile, nextId, faults>>

\* the outer catch of the handler
Caught == [pc |-> "done", res |-> [status |-> 500, message |-> "Error processing Excel file"]]

\* ExcelUploadHistory.create
CreateHistory(u, ok) ==
    /\ upload[u].pc = "parsed"
    /\ faults' = Faulted(ok)
    /\ IF ok
       THEN /\ histories' = histories \cup
                  {HistoryDocument([fileName |-> "leads.xlsx", budget |-> 0,
                                    uploadedBy |-> "unknown",
                                    totalRows |-> Len(upload[u].jsonData),
                                    processedLeads |-> 0, duplicates |-> 0, errors |-> 0],
                                   nextId)}
            /\ nextId' = nextId + 1
            /\ upload' = Set(u, [pc |-> "extracting", uploadHistory |-> nextId, i |-> 0])
       ELSE /\ upload' = Set(u, Caught)
            /\ UNCHANGED <<histories, nextId>>
    /\ UNCHANGED <<leads, customer_profile, disk>>

\* the first pass over one row: extraction, phone validation, duplicate check
AfterFirstPass(i, n) == IF i + 1 < n THEN "extracting" ELSE "matching"

\* the first pass leaving a detected duplicate out of the leads to create
FirstPassSkippingDuplicates(u, leadData, rowNumber, duplicateCheck, failAt) ==
    [pc |-> AfterFirstPass(upload[u].i, Len(upload[u].jsonData)),
     i |-> upload[u].i + 1,
     lookupFailed |-> IF failAt = 0 THEN upload[u].lookupFailed
                      ELSE upload[u].lookupFailed \cup {rowNumber},
     leadDataArray |-> IF duplicateCheck.isDuplicate THEN upload[u].leadDataArray
                       ELSE Append(upload[u].leadDataArray,
                                   [budget |-> 0, uploadHistoryId |-> upload[u].uploadHistory,
                                    excel_row_number |-> rowNumber] @@ leadData),
     duplicates |-> IF duplicateCheck.isDuplicate
                    THEN Append(upload[u].duplicates,
                                [row |-> rowNumber,
                                 phone |-> Field(leadData, "phone_number"),
                                 pan |-> Field(leadData, "pan_number"),
                                 reason |-> duplicateCheck.reason])
                    ELSE upload[u].duplicates]

\* the first pass looking for the phone among the rows queued by the other uploads in
\* progress as well
FirstPassSeeingOtherUploads(u, leadData, rowNumber, duplicateCheck, failAt) ==
    LET others == {v \in DOMAIN upload \ {u} :
                      \E k \in 1..Len(upload[v].leadDataArray) :
                          upload[v].leadDataArray[k].phone_number
                            = Field(leadData, "phone_number")}
        isDuplicate == duplicateCheck.isDuplicate \/ others # {}
        reason == IF duplicateCheck.isDuplicate THEN duplicateCheck.reason
                  ELSE "Phone number already exists"
        stamped == (IF isDuplicate
                    THEN [is_duplicate |-> TRUE,
                          duplicate_reason |-> reason,
                          original_lead_id |-> duplicateCheck.originalLeadId]
                    ELSE <<>>)
                   @@ [budget |-> 0, uploadHistoryId |-> upload[u].uploadHistory,
                       excel_row_number |-> rowNumber]
                   @@ leadData
    IN [pc |-> AfterFirstPass(upload[u].i, Len(upload[u].jsonData)),
        i |-> upload[u].i + 1,
        lookupFailed |-> IF failAt = 0 THEN upload[u].lookupFailed
                         ELSE upload[u].lookupFailed \cup {rowNumber},
        leadDataArray |-> Append(upload[u].leadDataArray, stamped),
        duplicates |-> IF isDuplicate
                       THEN Append(upload[u].duplicates,
                                   [row |-> rowNumber,
                                    phone |-> Field(leadData, "phone_number"),
                                    pan |-> Field(leadData, "pan_number"),
                                    reason |-> reason])
                       ELSE upload[u].duplicates]

\* the first pass looking for the phone among the rows already queued as well
FirstPassFlaggingSiblings(u, leadData, rowNumber, duplicateCheck, failAt) ==
    LET siblings == {k \in 1..Len(upload[u].leadDataArray) :
                        upload[u].leadDataArray[k].phone_number
                          = Field(leadData, "phone_number")}
        isDuplicate == duplicateCheck.isDuplicate \/ siblings # {}
        reason == IF duplicateCheck.isDuplicate THEN duplicateCheck.reason
                  ELSE "Phone number already exists"
        stamped == (IF isDuplicate
                    THEN [is_duplicate |-> TRUE,
                          duplicate_reason |-> reason,
                          original_lead_id |-> duplicateCheck.originalLeadId]
                    ELSE <<>>)
                   @@ [budget |-> 0, uploadHistoryId |-> upload[u].uploadHistory,
                       excel_row_number |-> rowNumber]
                   @@ leadData
    IN [pc |-> AfterFirstPass(upload[u].i, Len(upload[u].jsonData)),
        i |-> upload[u].i + 1,
        lookupFailed |-> IF failAt = 0 THEN upload[u].lookupFailed
                         ELSE upload[u].lookupFailed \cup {rowNumber},
        leadDataArray |-> Append(upload[u].leadDataArray, stamped),
        duplicates |-> IF isDuplicate
                       THEN Append(upload[u].duplicates,
                                   [row |-> rowNumber,
                                    phone |-> Field(leadData, "phone_number"),
                                    pan |-> Field(leadData, "pan_number"),
                                    reason |-> reason])
                       ELSE upload[u].duplicates]

FirstPassOf(u, leadData, rowNumber, duplicateCheck, failAt) ==
    LET stamped == (IF duplicateCheck.isDuplicate
                    THEN [is_duplicate |-> TRUE,
                          duplicate_reason |-> duplicateCheck.reason,
                          original_lead_id |-> duplicateCheck.originalLeadId]
                    ELSE <<>>)
                   @@ [budget |-> 0, uploadHistoryId |-> upload[u].uploadHistory,
                       excel_row_number |-> rowNumber]
                   @@ leadData
    IN [pc |-> AfterFirstPass(upload[u].i, Len(upload[u].jsonData)),
        i |-> upload[u].i + 1,
        lookupFailed |-> IF failAt = 0 THEN upload[u].lookupFailed
                         ELSE upload[u].lookupFailed \cup {rowNumber},
        leadDataArray |-> Append(upload[u].leadDataArray, stamped),
        duplicates |-> IF duplicateCheck.isDuplicate
                       THEN Append(upload[u].duplicates,
                                   [row |-> rowNumber,
                                    phone |-> Field(leadData, "phone_number"),
                                    pan |-> Field(leadData, "pan_number"),
                                    reason |-> duplicateCheck.reason])
                       ELSE upload[u].duplicates]

ExtractRow(u, failAt) ==
    LET rowNumber == upload[u].i + 2
        leadData == extractRow(upload[u].jsonData[upload[u].i + 1], rowNumber)
    IN /\ upload[u].pc = "extracting"
       /\ IF Field(leadData, "phone_number") = "" \/ Len(Field(leadData, "phone_number")) < 10
          THEN /\ failAt = 0
               /\ upload' = Set(u, [pc |-> AfterFirstPass(upload[u].i, Len(upload[u].jsonData)),
                                    i |-> upload[u].i + 1,
                                    errors |-> Append(upload[u].errors,
                                        [row |-> rowNumber, message |-> "Invalid phone number"])])
          ELSE /\ failAt # 0 => Work < MaxWork /\ LookupRuns(leadData, leads, failAt)
               /\ \E duplicateCheck \in checkForDuplicates(leadData, leads, failAt) :
                    upload' = Set(u, FirstPassOf(u, leadData, rowNumber, duplicateCheck, failAt))
       /\ faults' = IF failAt = 0 THEN faults ELSE faults + 1
       /\ UNCHANGED <<leads, histories, customer_profile, disk, nextId>>

\* leadDataArray.map(lead => lead.phone_number).filter(phone => phone)
phoneNumbers(leadDataArray) ==
    [k \in 1..Len(leadDataArray) |-> Field(leadDataArray[k], "phone_number")]

\* the batch check writing the phones it looked up into customer_profile
MatchStepRecordingPhones(u, queryOk) ==
    /\ upload[u].pc = "matching"
    /\ faults' = Faulted(queryOk)
    /\ upload' = Set(u, [pc |-> IF Len(upload[u].leadDataArray) = 0
                                THEN "finalizing" ELSE "persisting",
                         matchedPhones |->
                             checkPhoneNumbersInCustomerProfile(
                                 phoneNumbers(upload[u].leadDataArray),
                                 customer_profile, queryOk),
                         matcherFailed |-> ~queryOk,
                         next |-> 1])
    /\ customer_profile' =
          customer_profile \cup {phoneNumbers(upload[u].leadDataArray)[k] :
                                    k \in 1..Len(upload[u].leadDataArray)}
    /\ UNCHANGED <<leads, histories, disk, nextId>>

\* the batch check of the phones against customer_profile
MatchStep(u, queryOk) ==
    /\ upload[u].pc = "matching"
    /\ faults' = Faulted(queryOk)
    /\ upload' = Set(u, [pc |-> IF Len(upload[u].leadDataArray) = 0
                                THEN "finalizing" ELSE "persisting",
                         matchedPhones |->
                             checkPhoneNumbersInCustomerProfile(
                                 phoneNumbers(upload[u].leadDataArray),
                                 customer_profile, queryOk),
                         matcherFailed |-> ~queryOk,
                         next |-> 1])
    /\ UNCHANGED <<leads, histories, customer_profile, disk, nextId>>

\* the match stamp of the second pass
isMatched(leadData, matchedPhones) ==
    /\ normalizePhoneNumber(Field(leadData, "phone_number")) # ""
    /\ Field(leadData, "phone_number") \in matchedPhones

\* the second pass given up at the first lead whose creation fails
AfterSecondPassAborting(k, n, created) ==
    IF k < n /\ created THEN "persisting" ELSE "finalizing"

\* the for loop of the second pass: the catch of a row leaves the loop running
AfterSecondPass(k, n, created) == IF k < n THEN "persisting" ELSE "finalizing"

\* the second pass over one lead: match stamp and InstantFormLead.create
PersistRow(u, ok) ==
    LET k == upload[u].next
        matched == isMatched(upload[u].leadDataArray[k], upload[u].matchedPhones)
        leadData == [matched_in_customer_profile |-> matched,
                     matched_at |-> IF matched THEN 1 ELSE 0]
                    @@ upload[u].leadDataArray[k]
        created == ok /\ LeadValid(leadData)
        savedLead == LeadDocument(leadData, nextId, Today(u))
        common == [pc |-> AfterSecondPass(k, Len(upload[u].leadDataArray), created),
                   next |-> k + 1,
                   leadDataArray |-> [upload[u].leadDataArray EXCEPT ![k] = leadData],
                   matchedCount |-> upload[u].matchedCount + (IF matched THEN 1 ELSE 0)]
    IN /\ upload[u].pc = "persisting"
       /\ faults' = Faulted(ok)
       /\ IF created
          THEN /\ leads' = leads \cup {savedLead}
               /\ nextId' = nextId + 1
               /\ upload' = Set(u, common @@
                                   [processedLeads |-> Append(upload[u].processedLeads, savedLead)])
          ELSE /\ upload' = Set(u, common @@
                                   [errors |-> Append(upload[u].errors,
                                       [row |-> leadData.excel_row_number,
                                        message |-> IF ok THEN "validation failed"
                                                    ELSE "store error"])])
               /\ UNCHANGED <<leads, nextId>>
       /\ UNCHANGED <<histories, customer_profile, disk>>

\* the summary of the success response with the duplicates counted among the errors
SummaryCountingDuplicatesAsErrors(u) ==
    [uploadHistoryId |-> upload[u].uploadHistory,
     totalRows |-> Len(upload[u].jsonData),
     processedLeads |-> Len(upload[u].processedLeads),
     duplicates |-> Len(upload[u].duplicates),
     errors |-> Len(upload[u].errors) + Len(upload[u].duplicates),
     matchedInCustomerProfile |-> upload[u].matchedCount,
     unmatchedInCustomerProfile |-> Len(upload[u].processedLeads) - upload[u].matchedCount,
     leads |-> [k \in 1..Len(upload[u].processedLeads) |-> upload[u].processedLeads[k]._id],
     duplicateList |-> upload[u].duplicates,
     errorList |-> upload[u].errors]

\* the summary of the success response
Summary(u) ==
    [uploadHistoryId |-> upload[u].uploadHistory,
     totalRows |-> Len(upload[u].jsonData),
     processedLeads |-> Len(upload[u].processedLeads),
     duplicates |-> Len(upload[u].duplicates),
     errors |-> Len(upload[u].errors),
     matchedInCustomerProfile |-> upload[u].matchedCount,
     unmatchedInCustomerProfile |-> Len(upload[u].processedLeads) - upload[u].matchedCount,
     leads |-> [k \in 1..Len(upload[u].processedLeads) |-> upload[u].processedLeads[k]._id],
     duplicateList |-> upload[u].duplicates,
     errorList |-> upload[u].errors]

\* findByIdAndUpdate with the final counts, the cleanup of req.files, the response
Finalize(u, ok) ==
    /\ upload[u].pc = "finalizing"
    /\ faults' = Faulted(ok)
    /\ IF ok
       THEN /\ histories' =
                  {IF h._id = upload[u].uploadHistory
                   THEN HistoryUpdated(h, [processedLeads |-> Len(upload[u].processedLeads),
                                           duplicates |-> Len(upload[u].duplicates),
                                           errors |-> Len(upload[u].errors),
                                           matchedInCustomerProfile |-> upload[u].matchedCount])
                   ELSE h : h \in histories}
            /\ disk' = disk \ {<<u, k>> : k \in 1..upload[u].nFiles}
            /\ upload' = Set(u, [pc |-> "done",
                                 res |-> [status |-> 200, data |-> Summary(u)]])
       ELSE /\ upload' = Set(u, Caught)
            /\ UNCHANGED <<histories, disk>>
    /\ UNCHANGED <<leads, customer_profile, nextId>>

(***************************************************************************)
(* The requests other than uploads: DELETE /history/:id, PUT /history/:id, *)
(* the report GET /leads with its re-check of the unmatched leads, and     *)
(* GET /customers/stats.  Each is one step; call holds its response.       *)
(***************************************************************************)
\* the ids a request can name: those of the stored upload histories, and one that names none
HistoryIds == {h._id : h \in histories} \cup {0}

\* lead.matched_in_customer_profile read from a stored document: undefined when not stored
matched_in_customer_profile(lead) ==
    "matched_in_customer_profile" \in DOMAIN lead /\ lead.matched_in_customer_profile

\* the condition {path: value} of a filter on the Lead collection.  A path the schema does
\* not declare is removed from the filter when the build's Mongoose runs with strictQuery
\* (the condition then holds for every document); otherwise it is sent as it is and holds
\* for the documents that store that value
FilterMatches(lead, path, value, strictQuery) ==
    IF path \in instantFormLeadSchema \cup {"_id"} THEN lead[path] = value
    ELSE strictQuery \/ (path \in DOMAIN lead /\ lead[path] = value)

\* an update without $set: the document is replaced by update, every other declared path
\* going back to its default
LeadOverwritten(doc, update) ==
    [path \in DOMAIN doc |->
        IF path = "_id" THEN doc[path]
        ELSE IF path \in DOMAIN update /\ path \in instantFormLeadSchema THEN update[path]
        ELSE LeadPathDefault(path)]

\* an update {$set: update} of a stored Lead: the declared paths of update are written
LeadUpdated(doc, update) ==
    [path \in DOMAIN doc |->
        IF path \in DOMAIN update /\ path \in instantFormLeadSchema
        THEN update[path] ELSE doc[path]]

Answer(fn, args, res) == [fn |-> fn, res |-> res] @@ args

\* one more request other than an upload is served
Serve ==
    /\ Work < MaxWork
    /\ served' = served + 1
    /\ UNCHANGED report

\* DELETE /history/:id; failAt is the store call that throws (1 findById, 2 deleteMany,
\* 3 findByIdAndDelete; 0 none)
DeleteHistory(id, strictQuery, failAt) ==
    LET history == {h \in histories : h._id = id}
        deletedLeads == {l \in leads : FilterMatches(l, "uploadHistoryId", id, strictQuery)}
        fn == "DELETE /history/:id"
        args == [id |-> id]
        failed == Answer(fn, args, [status |-> 500, message |-> "Error deleting upload history"])
    IN /\ Serve
       /\ failAt > 1 => history # {}
       /\ IF failAt = 1
          THEN call' = failed /\ UNCHANGED <<leads, histories>>
          ELSE IF history = {}
          THEN /\ call' = Answer(fn, args, [status |-> 404, message |-> "Upload history not found"])
               /\ UNCHANGED <<leads, histories>>
          ELSE IF failAt = 2
          THEN call' = failed /\ UNCHANGED <<leads, histories>>
          ELSE IF failAt = 3
          THEN call' = failed /\ leads' = leads \ deletedLeads /\ UNCHANGED histories
          ELSE /\ leads' = leads \ deletedLeads
               /\ histories' = histories \ history
               /\ call' = Answer(fn, args,
                                 [status |-> 200,
                                  data |-> [deletedHistoryId |-> id,
                                            deletedLeadsCount |-> Cardinality(deletedLeads)]])
       /\ UNCHANGED <<customer_profile, disk, nextId, faults, upload>>

\* the budgets a request body can carry: none, or a number
Budgets == {<<>>, <<7>>}

\* PUT /history/:id
UpdateBudget(id, budget, ok) ==
    LET fn == "PUT /history/:id"
        args == [id |-> id, budget |-> budget]
        updatedHistory == {HistoryUpdated(h, [budget |-> budget[1]]) : h \in {g \in histories : g._id = id}}
    IN /\ Serve
       /\ IF budget = <<>>
          THEN /\ ok
               /\ call' = Answer(fn, args, [status |-> 400, message |-> "Budget is required"])
               /\ UNCHANGED histories
          ELSE IF ~ok
          THEN /\ call' = Answer(fn, args, [status |-> 500, message |-> "Error updating budget"])
               /\ UNCHANGED histories
          ELSE IF updatedHistory = {}
          THEN /\ call' = Answer(fn, args, [status |-> 404, message |-> "Upload history not found"])
               /\ UNCHANGED histories
          ELSE /\ histories' = {h \in histories : h._id # id} \cup updatedHistory
               /\ call' = Answer(fn, args, [status |-> 200, data |-> updatedHistory])
       /\ UNCHANGED <<leads, customer_profile, disk, nextId, faults, upload>>

\* the days a report can range over
Days == 1..MaxUploads

\* the condition of the report's filters on uploaded_at and phone_number
InWindow(lead, startDate, endDate) ==
    /\ startDate <= lead.uploaded_at /\ lead.uploaded_at <= endDate
    /\ lead.phone_number # ""

\* SELECT DISTINCT cp_mobile FROM customer_profile WHERE cp_mobile IN (phones)
matchingCustomers(phones) == {m \in customer_profile : m \in phones}

\* the Leads the report's updateMany modifies: its filter names the phones and the flag,
\* not the dates; its $set (and the updatedAt of the timestamps) is applied to each of them
updateManyMatched(newlyMatchedPhones, strictQuery) ==
    {l \in leads : /\ l.phone_number \in newlyMatchedPhones
                   /\ FilterMatches(l, "matched_in_customer_profile", FALSE, strictQuery)}

\* GET /leads?startDate&endDate: the part on the instant form leads
Reconcile(startDate, endDate, strictQuery, ok) ==
    LET fn == "GET /leads"
        args == [startDate |-> startDate, endDate |-> endDate, strictQuery |-> strictQuery]
        instantLeads == {l \in leads : InWindow(l, startDate, endDate)}
        phones == {l.phone_number : l \in instantLeads}
        unmatchedLeads == {l \in instantLeads : ~matched_in_customer_profile(l)}
        unmatchedPhoneNumbers == {l.phone_number : l \in unmatchedLeads}
        newlyMatchedPhones == matchingCustomers(unmatchedPhoneNumbers)
        modified == updateManyMatched(newlyMatchedPhones, strictQuery)
        after == {IF l \in modified
                  THEN LeadUpdated(l, [matched_in_customer_profile |-> TRUE, matched_at |-> endDate])
                  ELSE l : l \in leads}
        countDocuments(flag) ==
            Cardinality({l \in after :
                            /\ InWindow(l, startDate, endDate)
                            /\ FilterMatches(l, "matched_in_customer_profile", flag, strictQuery)})
    IN /\ Serve
       /\ IF ok
          THEN /\ leads' = after
               /\ call' = Answer(fn, args,
                                 [status |-> 200,
                                  totalInstantLeadFormData |-> Cardinality(matchingCustomers(phones)),
                                  matched |-> countDocuments(TRUE),
                                  unmatched |-> countDocuments(FALSE),
                                  newlyMatched |-> Cardinality(modified),
                                  total |-> countDocuments(TRUE) + countDocuments(FALSE)])
          ELSE /\ call' = Answer(fn, <<>>,
                                 [status |-> 500, message |-> "Failed to fetch lead report"])
               /\ UNCHANGED leads
       /\ UNCHANGED <<histories, customer_profile, disk, nextId, faults, upload>>

\* GET /customers/stats
CustomerStats(ok) ==
    /\ Serve
    /\ call' = Answer("GET /customers/stats", <<>>,
                      IF ok THEN [status |-> 200, total |-> Cardinality(customer_profile)]
                      ELSE [status |-> 500, message |-> "Failed to fetch customer statistics"])
    /\ UNCHANGED <<leads, histories, customer_profile, disk, nextId, faults, upload>>

(***************************************************************************)
(* GET /leads served in two steps, so that other requests can run between  *)
(* its reads and its updateMany.                                           *)
(***************************************************************************)
\* InstantFormLead.find over the window and the query of customer_profile for the phones
\* of the leads read as unmatched; every request is served by the same build
ReportFind(r, startDate, endDate, strictQuery) ==
    LET instantLeads == {l \in leads : InWindow(l, startDate, endDate)}
        unmatchedLeads == {l \in instantLeads : ~matched_in_customer_profile(l)}
        unmatchedPhoneNumbers == {l.phone_number : l \in unmatchedLeads}
    IN /\ report[r].pc = "idle"
       /\ \A q \in Reports : q < r => report[q].pc # "idle"
       /\ \A q \in Reports : report[q].pc # "idle" => report[q].strictQuery = strictQuery
       /\ Work < MaxWork
       /\ served' = served + 1
       /\ report' = [report EXCEPT ![r] =
                        [pc |-> "updating", startDate |-> startDate, endDate |-> endDate,
                         strictQuery |-> strictQuery,
                         phoneNumbers |-> {l.phone_number : l \in instantLeads},
                         newlyMatchedPhones |-> matchingCustomers(unmatchedPhoneNumbers)]
                        @@ report[r]]
       /\ call' = [fn |-> "none"]
       /\ UNCHANGED <<leads, histories, customer_profile, disk, nextId, faults, upload>>

\* InstantFormLead.updateMany, the count queries and the response; modified holds the
\* ids of the Leads the updateMany reported in modifiedCount
ReportUpdate(r) ==
    LET strictQuery == report[r].strictQuery
        modified == updateManyMatched(report[r].newlyMatchedPhones, strictQuery)
        after == {IF l \in modified
                  THEN LeadUpdated(l, [matched_in_customer_profile |-> TRUE,
                                       matched_at |-> report[r].endDate])
                  ELSE l : l \in leads}
        countDocuments(flag) ==
            Cardinality({l \in after :
                            /\ InWindow(l, report[r].startDate, report[r].endDate)
                            /\ FilterMatches(l, "matched_in_customer_profile", flag, strictQuery)})
    IN /\ report[r].pc = "updating"
       /\ leads' = after
       /\ report' = [report EXCEPT ![r] =
                        [pc |-> "done",
                         modified |-> {l._id : l \in modified},
                         res |-> [status |-> 200,
                                  totalInstantLeadFormData |->
                                      Cardinality(matchingCustomers(report[r].phoneNumbers)),
                                  matched |-> countDocuments(TRUE),
                                  unmatched |-> countDocuments(FALSE),
                                  newlyMatched |-> Cardinality(modified),
                                  total |-> countDocuments(TRUE) + countDocuments(FALSE)]]
                        @@ report[r]]
       /\ call' = [fn |-> "none"]
       /\ UNCHANGED <<histories, customer_profile, disk, nextId, faults, upload, served>>

(***************************************************************************)
(* The specifications.  Spec: upload requests served one after the other. *)
(* SpecRequests: the uploads of one short sheet whose store calls all      *)
(* answer, with the other requests served between them.  SpecConcurrent:   *)
(* such uploads in progress together.  SpecDeletions: the same, with      *)
(* deletions served in between.  SpecReports: such uploads one at a time,  *)
(* then reports in progress together.                                      *)
(***************************************************************************)
MaxRowsWithRequests == 1   \* rows of a sheet uploaded in SpecRequests

\* the steps of upload request u, its request body drawn from requests and the outcomes
\* of its store calls from outcomes
UploadStep(u, requests, outcomes) ==
    /\ call' = [fn |-> "none"]
    /\ UNCHANGED <<served, report>>
    /\ \/ \E r \in requests : Receive(u, r)
       \/ \E ok \in outcomes : CreateHistory(u, ok)
       \/ \E failAt \in 0..3 : (failAt # 0 => FALSE \in outcomes) /\ ExtractRow(u, failAt)
       \/ \E ok \in outcomes : MatchStep(u, ok)
       \/ \E ok \in outcomes : PersistRow(u, ok)
       \/ \E ok \in outcomes : Finalize(u, ok)

\* upload requests served one at a time
Upload(u, requests, outcomes) == Sequential(u) /\ UploadStep(u, requests, outcomes)

Next == \E u \in Uploads : Upload(u, Affordable, Outcomes)

\* the affordable requests that carry one file with a short sheet of at least one row
AffordableShort ==
    {r \in Affordable : /\ r.nFiles = 1
                        /\ Len(r.jsonData) \in 1..MaxRowsWithRequests}

\* no upload request is being served
Quiescent == \A u \in Uploads : upload[u].pc \in {"idle", "done"}

NextRequests ==
    \/ \E u \in Uploads : Upload(u, AffordableShort, {TRUE})
    \/ Quiescent /\ \E id \in HistoryIds, strictQuery \in BOOLEAN, failAt \in 0..3 :
          DeleteHistory(id, strictQuery, failAt)
    \/ Quiescent /\ \E id \in HistoryIds, budget \in Budgets, ok \in BOOLEAN :
          UpdateBudget(id, budget, ok)
    \/ Quiescent /\ \E startDate \in Days, endDate \in Days, strictQuery \in BOOLEAN, ok \in BOOLEAN :
          startDate <= endDate /\ Reconcile(startDate, endDate, strictQuery, ok)
    \/ Quiescent /\ \E ok \in BOOLEAN : CustomerStats(ok)

\* upload request u arrives after the request before it, which may still be in progress,
\* and after the end of the earlier ones
Arrived(u) ==
    \A v \in Uploads :
        /\ v < u => upload[v].pc # "idle"
        /\ v + 1 < u => upload[v].pc = "done"

\* uploads served concurrently: the handlers interleave at their awaits
NextConcurrent ==
    \E u \in Uploads : Arrived(u) /\ UploadStep(u, AffordableShort, {TRUE})

\* uploads and deletions served concurrently
NextDeletions ==
    \/ NextConcurrent
    \/ \E id \in HistoryIds, strictQuery \in BOOLEAN : DeleteHistory(id, strictQuery, 0)

\* reports served concurrently, after uploads served one at a time
NextReports ==
    \/ \E u \in Uploads :
          /\ \A r \in Reports : report[r].pc = "idle"
          /\ Upload(u, AffordableShort, {TRUE})
    \/ \E r \in Reports, startDate \in Days, endDate \in Days, strictQuery \in BOOLEAN :
          /\ Quiescent
          /\ startDate <= endDate
          /\ ReportFind(r, startDate, endDate, strictQuery)
    \/ \E r \in Reports : ReportUpdate(r)

Spec == Init /\ [][Next]_vars

SpecConcurrent == Init /\ [][NextConcurrent]_vars

SpecDeletions == Init /\ [][NextDeletions]_vars

SpecReports == Init /\ [][NextReports]_vars

SpecRequests == Init /\ [][NextRequests]_vars
(***************************************************************************)
(* The calls specification: checkPhoneNumbersInCustomerProfile and         *)
(* checkForDuplicates called on their own, on arguments drawn from pools.  *)
(***************************************************************************)
MaxPhones == 2    \* phones in the list given to the matcher
MaxStored == 2    \* leads in the store given to the detector
MaxCols == 2      \* populated columns of a row given to extractAllFields

PhonePool == {"919034955557", "9034955557", "+91 90349-55557", "8888888888", "12345678"}
PhoneLists == SeqsUpTo(PhonePool, MaxPhones)
TablePool == {"+91-9034955557", "08888888888", "12345"}

\* the rows of the pool that make a Lead, stored under every id
StoredPool ==
    {LeadDocument(extractedRows[row], id, 1) :
        row \in {r \in RowPool : LeadValid(extractedRows[r])}, id \in 1..MaxStored}
Stores ==
    {S \in SUBSET StoredPool :
        /\ Cardinality(S) <= MaxStored
        /\ \A a, b \in S : a._id = b._id => a = b}

CallMatcher(phones, table, queryOk) ==
    /\ call.fn = "none"
    /\ call' = [fn |-> "checkPhoneNumbersInCustomerProfile",
                phoneNumbers |-> phones,
                customerProfile |-> table,
                queryOk |-> queryOk,
                result |-> checkPhoneNumbersInCustomerProfile(phones, table, queryOk)]
    /\ UNCHANGED <<leads, histories, customer_profile, disk, nextId, faults, upload, served, report>>

CallCheckForDuplicates(leadData, stored) ==
    /\ call.fn = "none"
    /\ \E result \in checkForDuplicates(leadData, stored, 0) :
          call' = [fn |-> "checkForDuplicates",
                   leadData |-> leadData,
                   stored |-> stored,
                   result |-> result]
    /\ UNCHANGED <<leads, histories, customer_profile, disk, nextId, faults, upload, served, report>>

\* the values normalizePhoneNumber is called on: a missing one, and texts
NormalizeInputs ==
    {"", "919034955557", "09034955557", "12345", "9034955557", "+91-9034955557",
     "91 90349 55557", "0919034955557", "009034955557", "910034955557", "0000000000",
     "abc", "9034955557x", "19034955557", "(0) 90349-55557", "90349555570"}

\* normalizePhoneNumber(phone), and the function applied to its result
CallNormalize(phone) ==
    /\ call.fn = "none"
    /\ call' = [fn |-> "normalizePhoneNumber",
                phone |-> phone,
                result |-> normalizePhoneNumber(phone),
                again |-> normalizePhoneNumber(normalizePhoneNumber(phone))]
    /\ UNCHANGED <<leads, histories, customer_profile, disk, nextId, faults, upload, served, report>>

\* the columns of the rows extractAllFields is called on: headers in several spellings
\* of the aliases and unknown ones; texts, numbers, a zero, blank and empty cells
ColPool ==
    {Col("phone_number", Text("91-903-495-5557")), Col("Mobile", Number("9034955557")),
     Col("Pan_No", Text(" abcde1234f ")), Col("CITY", Text(" Pune ")),
     Col("referrer_url", Text(" http://ad ")), Col("Notes", Text("   ")),
     Col("existing_loans", Number("0"))}

\* the rows of at most MaxCols columns: the keys of an object are distinct
RowsOfCols ==
    {row \in SeqsUpTo(ColPool, MaxCols) :
        \A j, k \in 1..Len(row) : j # k => row[j].header # row[k].header}

\* extractAllFields(row, rowNumber)
CallExtract(row, rowNumber) ==
    /\ call.fn = "none"
    /\ call' = [fn |-> "extractAllFields",
                row |-> row,
                rowNumber |-> rowNumber,
                result |-> extractAllFields(row, rowNumber)]
    /\ UNCHANGED <<leads, histories, customer_profile, disk, nextId, faults, upload, served, report>>

NextCalls ==
    \/ \E phone \in NormalizeInputs : CallNormalize(phone)
    \/ \E row \in RowsOfCols \cup RowPool : CallExtract(row, 2)
    \/ \E phones \in PhoneLists, table \in SUBSET TablePool, queryOk \in BOOLEAN :
          CallMatcher(phones, table, queryOk)
    \/ \E row \in RowPool, stored \in Stores :
          CallCheckForDuplicates(extractedRows[row], stored)

SpecCalls == Init /\ [][NextCalls]_vars

(***************************************************************************)
(* Properties.                                                             *)
(***************************************************************************)
Answered(u) == upload[u].pc = "done"
Succeeded(u) == Answered(u) /\ upload[u].res.status = 200
FileLevelRejected(u) == Answered(u) /\ upload[u].res.status = 400

\* C1: whenever the response of an upload request has been sent, by whatever exit path,
\* none of the temporary files of that request is left under uploads/.
C1_TempFilesRemovedOnEveryExit ==
    \A u \in Uploads :
        Answered(u) => \A k \in 1..upload[u].nFiles : <<u, k>> \notin disk

\* C2: the step that rejects a request for a file-level reason (no file, unreadable
\* workbook, empty sheet) leaves the lead store and the history store as they were,
\* and the request holds no upload history id.
C2_FileLevelRejectionPersistsNothing ==
    [][\A u \in Uploads :
          (~Answered(u) /\ upload'[u].pc = "done" /\ upload'[u].res.status = 400)
          => /\ leads' = leads
             /\ histories' = histories
             /\ upload'[u].uploadHistory = 0]_vars

C2_Witness ==
    \E u \in Uploads :
        /\ FileLevelRejected(u)
        /\ upload[u].nFiles > 0 /\ upload[u].readable
        /\ leads # {} /\ histories # {}

\* the Leads stored with a reference to upload history id
LeadsOfHistory(id) ==
    {l \in leads : "uploadHistoryId" \in DOMAIN l /\ l.uploadHistoryId = id}

\* C3: after a success summary the stored upload history carries the totalRows,
\* processedLeads, duplicates and errors of the summary, and processedLeads is the
\* number of stored Leads that refer to that upload history.
C3_HistoryCountsEqualSummary ==
    \A u \in Uploads :
        Succeeded(u) =>
            LET data == upload[u].res.data
            IN \E h \in histories :
                  /\ h._id = data.uploadHistoryId
                  /\ h.totalRows = data.totalRows
                  /\ h.processedLeads = data.processedLeads
                  /\ h.duplicates = data.duplicates
                  /\ h.errors = data.errors
                  /\ data.processedLeads = Cardinality(LeadsOfHistory(h._id))

\* the error entries and the saved Leads (the documents InstantFormLead.create returned)
\* of spreadsheet row rowNumber of upload u
ErrorsOfRow(u, rowNumber) ==
    {k \in 1..Len(upload[u].errors) : upload[u].errors[k].row = rowNumber}
SavedOfRow(u, rowNumber) ==
    {k \in 1..Len(upload[u].processedLeads) :
        upload[u].processedLeads[k].excel_row_number = rowNumber}
QueuedOfRow(u, rowNumber) ==
    {k \in 1..Len(upload[u].leadDataArray) :
        upload[u].leadDataArray[k].excel_row_number = rowNumber}

PhoneInvalid(leadData) ==
    Field(leadData, "phone_number") = "" \/ Len(Field(leadData, "phone_number")) < 10

\* the failure of a row itself: its phone, the schema's validation, a store error at its creation
RowFails(u, n) ==
    LET leadData == extractRow(upload[u].jsonData[n], n + 1)
    IN \/ PhoneInvalid(leadData)
       \/ ~LeadValid(leadData)
       \/ \E k \in ErrorsOfRow(u, n + 1) : upload[u].errors[k].message = "store error"

\* C4: once both passes are over, every row has exactly one outcome, an error entry
\* when the row itself fails and a stored Lead otherwise, whatever happened to the
\* other rows; every row with a valid phone was duplicate-checked and queued.
C4_RowFailureIsConfinedToItsRow ==
    \A u \in Uploads :
        (upload[u].pc = "finalizing" \/ Succeeded(u)) =>
            \A n \in 1..Len(upload[u].jsonData) :
                /\ Cardinality(QueuedOfRow(u, n + 1))
                     = (IF PhoneInvalid(extractRow(upload[u].jsonData[n], n + 1)) THEN 0 ELSE 1)
                /\ IF RowFails(u, n)
                   THEN Cardinality(ErrorsOfRow(u, n + 1)) = 1 /\ SavedOfRow(u, n + 1) = {}
                   ELSE /\ ErrorsOfRow(u, n + 1) = {}
                        /\ Cardinality(SavedOfRow(u, n + 1)) = 1

C4_Witness ==
    \E u \in Uploads :
        /\ Succeeded(u)
        /\ \E n \in 1..Len(upload[u].jsonData) :
              /\ n < Len(upload[u].jsonData)
              /\ RowFails(u, n)
              /\ ~PhoneInvalid(extractRow(upload[u].jsonData[n], n + 1))
              /\ ~RowFails(u, n + 1)
              /\ SavedOfRow(u, n + 2) # {}

\* the phone has a canonical form that some mobile of the external table has too
InCustomerProfile(phone) ==
    /\ normalizePhoneNumber(phone) # ""
    /\ \E m \in customer_profile : normalizePhoneNumber(m) = normalizePhoneNumber(phone)

\* C5: after the match step (the external query having answered) every lead of the
\* upload that went through the second pass is stamped matched_in_customer_profile
\* exactly when the canonical form of its phone is that of some external mobile.
C5_StampedExactlyWhenCanonicalMatch ==
    \A u \in Uploads :
        ~upload[u].matcherFailed =>
            \A k \in 1..Len(upload[u].leadDataArray) :
                "matched_in_customer_profile" \in DOMAIN upload[u].leadDataArray[k] =>
                    upload[u].leadDataArray[k].matched_in_customer_profile
                      = InCustomerProfile(upload[u].leadDataArray[k].phone_number)
\* C6: whatever the phone list and the external table, every string the matcher
\* returns is an element of the input list, unchanged, and its canonical form is
\* the canonical form of some mobile of the external table.
C6_MatcherReturnsOriginalsThatMatch ==
    call.fn = "checkPhoneNumbersInCustomerProfile" =>
        \A p \in call.result :
            /\ \E k \in 1..Len(call.phoneNumbers) : call.phoneNumbers[k] = p
            /\ normalizePhoneNumber(p) # ""
            /\ \E m \in call.customerProfile :
                  normalizePhoneNumber(m) = normalizePhoneNumber(p)

C6_Witness ==
    /\ call.fn = "checkPhoneNumbersInCustomerProfile"
    /\ \E p \in call.result : normalizePhoneNumber(p) # p /\ p \notin call.customerProfile
    /\ \E k \in 1..Len(call.phoneNumbers) : call.phoneNumbers[k] \notin call.result

\* C7: when the query of the external store fails in the match step, the match set
\* is empty, the upload still ends with its success summary, and every row that
\* survived the first pass is a stored Lead with matched_in_customer_profile = false.
C7_MatcherFailureStillPersistsUnmatched ==
    \A u \in Uploads :
        (upload[u].matcherFailed /\ Succeeded(u)) =>
            /\ upload[u].matchedPhones = {}
            /\ \A n \in 1..Len(upload[u].leadDataArray) :
                  \E k \in SavedOfRow(u, upload[u].leadDataArray[n].excel_row_number) :
                      LET l == upload[u].processedLeads[k]
                      IN /\ l \in leads
                         /\ "matched_in_customer_profile" \in DOMAIN l
                         /\ l.matched_in_customer_profile = FALSE

\* the stored leads of the call that have leadData's value under key
SameKey(key) ==
    {l \in call.stored : l[key] = Field(call.leadData, key)}
Hit(reason, key) ==
    /\ call.result.isDuplicate
    /\ call.result.reason = reason
    /\ \E l \in SameKey(key) : call.result.originalLeadId = l._id

\* C8: whatever the lead and the store, the detector answers with the first hit in the
\* order phone, PAN (when present), email (when present), naming a stored lead that
\* matches on that key, and with "not a duplicate" (no reason, no id) when none hits.
C8_FirstHitInPhonePanEmailOrder ==
    call.fn = "checkForDuplicates" =>
        IF SameKey("phone_number") # {}
        THEN Hit("Phone number already exists", "phone_number")
        ELSE IF Field(call.leadData, "pan_number") # "" /\ SameKey("pan_number") # {}
        THEN Hit("PAN number already exists", "pan_number")
        ELSE IF Field(call.leadData, "email") # "" /\ SameKey("email") # {}
        THEN Hit("Email already exists", "email")
        ELSE call.result = NotDuplicate

C8_Witness ==
    /\ call.fn = "checkForDuplicates"
    /\ call.result.reason = "PAN number already exists"
    /\ SameKey("email") # {}
    /\ Cardinality(SameKey("pan_number")) > 1

\* C9: the step of the first pass in which a lookup of the duplicate check throws
\* records no error and no duplicate for the row, queues the row without a duplicate
\* stamp, and goes on to the next row (or to the match step after the last row).
C9_LookupFailureMeansNotDuplicate ==
    [][\A u \in Uploads :
          upload'[u].lookupFailed # upload[u].lookupFailed =>
             /\ upload'[u].errors = upload[u].errors
             /\ upload'[u].duplicates = upload[u].duplicates
             /\ Len(upload'[u].leadDataArray) = Len(upload[u].leadDataArray) + 1
             /\ LET queued == upload'[u].leadDataArray[Len(upload'[u].leadDataArray)]
                IN /\ queued.excel_row_number = upload[u].i + 2
                   /\ "is_duplicate" \notin DOMAIN queued
             /\ upload'[u].i = upload[u].i + 1
             /\ upload'[u].pc = (IF upload'[u].i < Len(upload[u].jsonData)
                                 THEN "extracting" ELSE "matching")]_vars

C9_Witness ==
    \E u \in Uploads :
        /\ Succeeded(u)
        /\ \E rowNumber \in upload[u].lookupFailed :
              /\ rowNumber <= Len(upload[u].jsonData)
              /\ \A k \in SavedOfRow(u, rowNumber) : ~upload[u].processedLeads[k].is_duplicate
              /\ SavedOfRow(u, rowNumber) # {}
              /\ SavedOfRow(u, rowNumber + 1) # {}

\* the Lead stored for the k-th duplicate entry of upload u carries the duplicate stamp
StoredAsDuplicate(u, k) ==
    LET entry == upload[u].duplicates[k]
    IN /\ Cardinality(SavedOfRow(u, entry.row)) = 1
       /\ \A j \in SavedOfRow(u, entry.row) :
             LET l == upload[u].processedLeads[j]
             IN /\ l.is_duplicate
                /\ l.duplicate_reason = entry.reason
                /\ l.original_lead_id \in 1..(l._id - 1)

LeadsCreatedFor(id) ==
    {l \in leads : \E u \in Uploads :
                      /\ upload[u].uploadHistory = id
                      /\ \E k \in 1..Len(upload[u].processedLeads) :
                            upload[u].processedLeads[k]._id = l._id}

\* C11: the step that deletes an existing upload history removes from the lead store
\* exactly the Leads created for that upload history, no Lead of another one, and
\* answers with the number of Leads it removed as deletedLeadsCount.
C11_DeleteRemovesExactlyTheBatchLeads ==
    [][(call'.fn = "DELETE /history/:id" /\ call'.res.status = 200) =>
          /\ leads' = leads \ LeadsCreatedFor(call'.res.data.deletedHistoryId)
          /\ call'.res.data.deletedLeadsCount = Cardinality(leads) - Cardinality(leads')]_vars

\* the stored Lead, if it still exists, that upload u created from its k-th queued row
StoredOf(u, k) ==
    {l \in leads : \E j \in SavedOfRow(u, upload[u].leadDataArray[k].excel_row_number) :
                      upload[u].processedLeads[j]._id = l._id}

MatchPaths == {"matched_in_customer_profile", "matched_at"}

\* the batch reference a stored Lead carries (0: none)
BatchReference(l) == IF "uploadHistoryId" \in DOMAIN l THEN l.uploadHistoryId ELSE 0

\* documents l and m agree on every path outside paths
SameOutside(l, m, paths) ==
    \A path \in (DOMAIN l \cup DOMAIN m) \ paths :
        path \in DOMAIN l /\ path \in DOMAIN m /\ l[path] = m[path]

C14_CustomerTableIsOnlyRead ==
    [][customer_profile' = customer_profile]_vars

C14_Witness ==
    /\ customer_profile = CustomerTable
    /\ call.fn = "GET /customers/stats"
    /\ call.res.status = 200
    /\ call.res.total = Cardinality(CustomerTable)
    /\ \E u \in Uploads : Succeeded(u) /\ upload[u].matchedPhones # {}

\* the last step was a report over startDate..endDate that was answered
Reported(c, startDate, endDate, strictQuery) ==
    /\ c.fn = "GET /leads"
    /\ c.res.status = 200
    /\ c.startDate = startDate /\ c.endDate = endDate /\ c.strictQuery = strictQuery

\* C15: a report that directly follows a report over the same dates (nothing in
\* between, the external table unchanged) answers with the same matched and
\* unmatched totals, reports newlyMatched = 0 and changes no Lead.
C15_SecondReportFindsNothingNew ==
    [][\A startDate, endDate \in Days, strictQuery \in BOOLEAN :
          (Reported(call, startDate, endDate, strictQuery)
              /\ Reported(call', startDate, endDate, strictQuery)
              /\ customer_profile' = customer_profile)
          => /\ call'.res.matched = call.res.matched
             /\ call'.res.unmatched = call.res.unmatched
             /\ call'.res.newlyMatched = 0
             /\ leads' = leads]_vars

\* C16: after a report has been answered, every Lead of its date window whose phone has
\* the canonical form of some external mobile number is flagged
\* matched_in_customer_profile in the store, as the match step of an upload would
\* have stamped it.
C16_ReportMatchesOnCanonicalForm ==
    (call.fn = "GET /leads" /\ call.res.status = 200) =>
        \A l \in leads :
            (InWindow(l, call.startDate, call.endDate) /\ InCustomerProfile(l.phone_number))
            => matched_in_customer_profile(l)

\* the count fields of a stored upload history
CountPaths == {"totalRows", "processedLeads", "duplicates", "errors", "matchedInCustomerProfile"}
Counts(h) == [path \in CountPaths \cap DOMAIN h |-> h[path]]

\* upload u has been through both passes and this step ends it
FinalStepOf(u) ==
    /\ upload[u].pc = "finalizing" /\ upload'[u].pc = "done"
    /\ upload[u].i = Len(upload[u].jsonData)
    /\ upload[u].next > Len(upload[u].leadDataArray)

\* C17: an upload history is created with every count field at zero; its counts change
\* in one step only, the last step of its upload, after both passes over the rows (so
\* never during the row loops, and never by a budget update or another request).
C17_CountsZeroThenWrittenOnce ==
    [][\A g \in histories' :
          IF \A h \in histories : h._id # g._id
          THEN \A path \in DOMAIN Counts(g) : Counts(g)[path] = 0
          ELSE \A h \in histories :
                  (h._id = g._id /\ Counts(h) # Counts(g)) =>
                      \E u \in Uploads : upload[u].uploadHistory = g._id /\ FinalStepOf(u)]_vars

\* C18: the upload history of a request exists before any of its Leads, no Lead is
\* created before the match step is over, and a request that has persisted a Lead
\* ends with the success summary, never with a failure response.
C18_NoFailureOncePersistingBegan ==
    \A u \in Uploads :
        upload[u].processedLeads # <<>> =>
            /\ upload[u].uploadHistory # 0
            /\ upload[u].pc \in {"persisting", "finalizing", "done"}
            /\ upload[u].i = Len(upload[u].jsonData)
            /\ Answered(u) => upload[u].res.status = 200

\* C19: a request received with no spreadsheet file attached, or with more than one, is
\* rejected at the file level and holds no upload history: only a request with exactly
\* one spreadsheet file is processed.
C19_AcceptedOnlyWithExactlyOneFile ==
    \A u \in Uploads :
        (upload[u].pc # "idle" /\ upload[u].nFiles # 1) =>
            /\ FileLevelRejected(u)
            /\ upload[u].uploadHistory = 0

\* the Leads that were in the store before upload u created its upload history
PrecedingLeads(u) == {l \in leads : l._id < upload[u].uploadHistory}

\* rows m < n of the sheet of upload u carry the same valid phone, and no Lead stored
\* before the upload matches either of them on phone, PAN or email
Siblings(u, m, n) ==
    LET a == extractRow(upload[u].jsonData[m], m + 1)
        b == extractRow(upload[u].jsonData[n], n + 1)
    IN /\ m < n
       /\ ~PhoneInvalid(a)
       /\ Field(a, "phone_number") = Field(b, "phone_number")
       /\ checkForDuplicates(a, PrecedingLeads(u), 0) = {NotDuplicate}
       /\ checkForDuplicates(b, PrecedingLeads(u), 0) = {NotDuplicate}

\* row n of upload u is stored as one Lead with is_duplicate = false
StoredNotDuplicate(u, n) ==
    /\ Cardinality(SavedOfRow(u, n + 1)) = 1
    /\ \A j \in SavedOfRow(u, n + 1) : ~upload[u].processedLeads[j].is_duplicate

\* row n of upload u was queued without a duplicate stamp and has no duplicate entry
QueuedNotDuplicate(u, n) ==
    /\ Cardinality(QueuedOfRow(u, n + 1)) = 1
    /\ \A k \in QueuedOfRow(u, n + 1) : "is_duplicate" \notin DOMAIN upload[u].leadDataArray[k]
    /\ \A k \in 1..Len(upload[u].duplicates) : upload[u].duplicates[k].row # n + 1

\* C20 as stated: two rows of one file with the same phone, neither matched by a stored
\* Lead, are both persisted with is_duplicate = false.
C20_SiblingRowsAreBothStored ==
    \A u \in Uploads :
        Succeeded(u) =>
            \A m, n \in 1..Len(upload[u].jsonData) :
                Siblings(u, m, n) => StoredNotDuplicate(u, m) /\ StoredNotDuplicate(u, n)

\* C20 amended: two rows of one file with the same phone, neither matched by a stored
\* Lead, are both queued without a duplicate stamp and without a duplicate entry; each
\* of them is persisted with is_duplicate = false exactly when it passes the schema's
\* validation and its creation does not fail, and has an error entry and no Lead
\* otherwise.
C20_SiblingRowsNeverFlagEachOther ==
    \A u \in Uploads :
        Succeeded(u) =>
            \A m, n \in 1..Len(upload[u].jsonData) :
                Siblings(u, m, n) =>
                    \A r \in {m, n} :
                        /\ QueuedNotDuplicate(u, r)
                        /\ IF RowFails(u, r)
                           THEN SavedOfRow(u, r + 1) = {} /\ ErrorsOfRow(u, r + 1) # {}
                           ELSE StoredNotDuplicate(u, r)

C20_Witness ==
    \E u \in Uploads :
        /\ Succeeded(u)
        /\ \E m, n \in 1..Len(upload[u].jsonData) :
              /\ Siblings(u, m, n)
              /\ StoredNotDuplicate(u, m) /\ StoredNotDuplicate(u, n)

\* C21: uploads in progress together do not see each other: the step that queues a row
\* stamps it as a duplicate exactly when a Lead in the store matches it at that moment,
\* whatever the other uploads have queued, and the Lead then created carries the stamp
\* of its queued row; so two uploads with the same phone, neither matched in the store
\* when checked, both persist it with is_duplicate = false.
C21_ConcurrentUploadsSeeOnlyTheStore ==
    [][\A u \in Uploads :
          /\ Len(upload'[u].leadDataArray) = Len(upload[u].leadDataArray) + 1 =>
                LET leadData == extractRow(upload[u].jsonData[upload[u].i + 1], upload[u].i + 2)
                    queued == upload'[u].leadDataArray[Len(upload'[u].leadDataArray)]
                IN ("is_duplicate" \in DOMAIN queued)
                     = (checkForDuplicates(leadData, leads, 0) # {NotDuplicate})
          /\ Len(upload'[u].processedLeads) = Len(upload[u].processedLeads) + 1 =>
                LET savedLead == upload'[u].processedLeads[Len(upload'[u].processedLeads)]
                IN savedLead.is_duplicate
                     = ("is_duplicate" \in DOMAIN upload[u].leadDataArray[upload[u].next])]_vars

C21_Witness ==
    \E u, v \in Uploads :
        /\ u < v
        /\ Succeeded(u) /\ Succeeded(v)
        /\ \E a, b \in leads :
              /\ leads = {a, b}
              /\ a.phone_number = b.phone_number
              /\ ~a.is_duplicate /\ ~b.is_duplicate
              /\ upload[u].processedLeads = <<a>> /\ upload[v].processedLeads = <<b>>

\* report r read Lead l in its window as unmatched and found its phone in the external table
FoundNewlyMatched(r, l) ==
    /\ report[r].pc # "idle"
    /\ InWindow(l, report[r].startDate, report[r].endDate)
    /\ l.phone_number \in report[r].newlyMatchedPhones

PersistedMatched(u) ==
    {k \in 1..Len(upload[u].leadDataArray) :
        /\ "matched_in_customer_profile" \in DOMAIN upload[u].leadDataArray[k]
        /\ upload[u].leadDataArray[k].matched_in_customer_profile
        /\ SavedOfRow(u, upload[u].leadDataArray[k].excel_row_number) # {}}

\* C23: after a success summary, the matched count of the summary, which is also the one
\* stored on the upload history, is the number of Leads of the upload that were
\* persisted as matched; it does not exceed processedLeads and the unmatched count of
\* the summary is not negative.
C23_MatchedCountIsPersistedMatched ==
    \A u \in Uploads :
        Succeeded(u) =>
            LET data == upload[u].res.data
            IN /\ data.matchedInCustomerProfile = Cardinality(PersistedMatched(u))
               /\ data.matchedInCustomerProfile <= data.processedLeads
               /\ data.unmatchedInCustomerProfile >= 0
               /\ \A h \in histories :
                     h._id = data.uploadHistoryId =>
                         /\ "matchedInCustomerProfile" \in DOMAIN h
                         /\ h.matchedInCustomerProfile = data.matchedInCustomerProfile

\* the digits of a text, in order
DigitsOf(text) ==
    LET RECURSIVE upTo(_)
        upTo(i) == IF i = 0 THEN ""
                   ELSE upTo(i - 1) \o (IF Ch(text, i) \in DigitChars THEN Ch(text, i) ELSE "")
    IN upTo(Len(text))

\* a text without its leading zeros
FromFirstNonZero(text) ==
    LET nonZero == {i \in 1..Len(text) : Ch(text, i) # "0"}
    IN IF nonZero = {} THEN ""
       ELSE SubSeq(text, CHOOSE i \in nonZero : \A j \in nonZero : i <= j, Len(text))

\* the canonical form as the specification words it (null is "")
CanonicalForm(text) ==
    LET digits == DigitsOf(text)
        national == IF Len(digits) = 12 /\ Ch(digits, 1) = "9" /\ Ch(digits, 2) = "1"
                    THEN SubSeq(digits, 3, 12) ELSE digits
        rest == FromFirstNonZero(national)
    IN IF Len(rest) = 10 THEN rest ELSE ""

\* C24: for a missing value and for any text, normalizePhoneNumber returns the digits of
\* the input without a country code 91 (dropped when there are 12 digits) and without
\* leading zeros when exactly 10 digits remain, and null otherwise; "919034955557" and
\* "09034955557" give "9034955557", "12345" gives null, and the function applied to a
\* result other than null returns that result.
C24_NormalizeIsTheCanonicalForm ==
    call.fn = "normalizePhoneNumber" =>
        /\ call.result = CanonicalForm(call.phone)
        /\ call.phone \in {"919034955557", "09034955557"} => call.result = "9034955557"
        /\ call.phone = "12345" => call.result = ""
        /\ call.result # "" => call.again = call.result

C24_Witness ==
    /\ call.fn = "normalizePhoneNumber"
    /\ call.phone = "+91-9034955557"
    /\ call.result = "9034955557"
    /\ call.again = call.result

\* the cell holds something other than blanks
Populated(cell) == trim(cell.text) # ""

\* the standard attributes a header names, whatever its case
AttributesOf(header) ==
    {fieldMappings[m].field : m \in {k \in 1..Len(fieldMappings) : AliasMatches(k, header)}}

\* C25: for every row, every populated cell whose header matches no alias is stored
\* under additional_data, keyed by its header, as its trimmed text; every populated
\* cell whose header matches an alias has its content in that attribute; and
\* additional_data holds nothing else.
C25_NoPopulatedCellIsDropped ==
    call.fn = "extractAllFields" =>
        /\ \A k \in 1..Len(call.row) :
              Populated(call.row[k].cell) =>
                  IF AttributesOf(call.row[k].header) = {}
                  THEN /\ call.row[k].header \in DOMAIN call.result.additional_data
                       /\ call.result.additional_data[call.row[k].header]
                            = trim(call.row[k].cell.text)
                  ELSE \A f \in AttributesOf(call.row[k].header) :
                          /\ f \in DOMAIN call.result
                          /\ call.result[f] = MappedValue(f, trim(call.row[k].cell.text))
        /\ \A header \in DOMAIN call.result.additional_data :
              \E k \in 1..Len(call.row) :
                  /\ call.row[k].header = header
                  /\ Populated(call.row[k].cell)
                  /\ AttributesOf(header) = {}

\* the standard attributes, in the order of the alias table
StandardAttributes == {fieldMappings[m].field : m \in 1..Len(fieldMappings)}

\* the entries of the alias table that header names, whatever its case
MatchingMappings(header) == {m \in 1..Len(fieldMappings) : AliasMatches(m, header)}

\* the first attribute of the alias table among the entries hits ("" when there is none)
FirstAttribute(hits) ==
    IF hits = {} THEN ""
    ELSE fieldMappings[CHOOSE m \in hits : \A n \in hits : m <= n].field

\* per column of the call's row, the entries of the alias table its header names
ColumnMappings == [k \in 1..Len(call.row) |-> MatchingMappings(call.row[k].header)]

\* C26: extractAllFields maps a header to the one attribute that has it among its
\* aliases, whatever the case of the header (the first such attribute of the table); a
\* mapped phone cell is stored as its digits, with country code and leading zeros left
\* in place, a PAN cell upper-cased, any other mapped cell as its trimmed text; and no
\* attribute is set without a column naming it.
C26_HeadersMapCaseInsensitively ==
    call.fn = "extractAllFields" =>
        LET mappings == ColumnMappings
            columns == DOMAIN mappings
            attribute == [k \in columns |->
                             IF CellValue(call.row[k].cell) = "" THEN ""
                             ELSE FirstAttribute(mappings[k])]
        IN /\ \A k \in columns :
                 /\ Cardinality(mappings[k]) <= 1
                 /\ call.row[k].header = "CITY" => attribute[k] = "city"
                 /\ call.row[k].header = "Pan_No" => attribute[k] = "pan_number"
                 /\ call.row[k].header = "Mobile" => attribute[k] = "phone_number"
           /\ \A k \in columns :
                 (attribute[k] # "" /\ \A j \in columns : j > k => attribute[j] # attribute[k]) =>
                     LET text == trim(call.row[k].cell.text)
                         f == attribute[k]
                     IN /\ f \in DOMAIN call.result
                        /\ call.result[f] =
                              (IF f = "phone_number" THEN DigitsOf(text)
                               ELSE IF f = "pan_number" THEN toUpperCase(text)
                               ELSE text)
                        /\ text = "91-903-495-5557" => call.result[f] = "919034955557"
                        /\ text = "abcde1234f" => call.result[f] = "ABCDE1234F"
           /\ \A f \in StandardAttributes \cap DOMAIN call.result :
                 \E k \in columns : attribute[k] = f

C26_Witness ==
    /\ call.fn = "extractAllFields"
    /\ \E j, k \in 1..Len(call.row) :
          /\ call.row[j].header = "phone_number" /\ call.row[k].header = "Pan_No"
    /\ call.result.phone_number = "919034955557"
    /\ call.result.pan_number = "ABCDE1234F"

\* the Leads of the window whose match flag the step from leads to leads' turns from
\* false to true
FlagTurnedOn(startDate, endDate) ==
    {l \in leads :
        /\ InWindow(l, startDate, endDate)
        /\ ~matched_in_customer_profile(l)
        /\ \E after \in leads' : after._id = l._id /\ matched_in_customer_profile(after)}

\* C27: a report answered for a date window leaves every Lead uploaded outside the window
\* as it was, and its newlyMatched figure is the number of Leads of the window whose
\* match flag this run turned from false to true.
C27_ReportTouchesOnlyItsWindow ==
    [][\A startDate, endDate \in Days, strictQuery \in BOOLEAN :
          Reported(call', startDate, endDate, strictQuery)
          => /\ \A l \in leads :
                   ~(startDate <= l.uploaded_at /\ l.uploaded_at <= endDate) => l \in leads'
             /\ call'.res.newlyMatched = Cardinality(FlagTurnedOn(startDate, endDate))]_vars

ExistingBatches == {h._id : h \in histories}

\* C29: in every state, with deletions interleaved with running uploads, the batch
\* reference of every persisted Lead names an upload history that exists: the Lead
\* was created for a history that is still there and refers to it.
C29_EveryLeadHasItsBatch ==
    \A l \in leads :
        /\ BatchReference(l) \in ExistingBatches
        /\ l \in LeadsCreatedFor(BatchReference(l))

\* stored Leads l and o share the key that duplicate_reason names
SharesNamedKey(l, o) ==
    \/ l.duplicate_reason = "Phone number already exists" /\ o.phone_number = l.phone_number
    \/ l.duplicate_reason = "PAN number already exists"
          /\ l.pan_number # "" /\ o.pan_number = l.pan_number
    \/ l.duplicate_reason = "Email already exists" /\ l.email # "" /\ o.email = l.email

\* C30: in every state, after any uploads and batch deletions, the original_lead_id of
\* every Lead stored with is_duplicate = true names another Lead of the store that
\* shares the phone, PAN or email named by its duplicate_reason.
C30_DuplicateNamesAnExistingOriginal ==
    \A l \in leads :
        l.is_duplicate =>
            \E o \in leads \ {l} : o._id = l.original_lead_id /\ SharesNamedKey(l, o)
====
